---- MODULE Spec2Model ----
(***************************************************************************)
(* A model of somnisoft grep (src/src/grep.c): one run of grep_main, from  *)
(* option parsing through pattern loading, compilation, the scan of every  *)
(* input stream and the release of the pattern store.                      *)
(*                                                                         *)
(* C strings are sequences of one-character strings without the NUL.       *)
(* stdout and stderr are the sequences of the write calls the program      *)
(* issues, in order.  The environment (files, the C library's allocation   *)
(* and I/O calls) answers each call nondeterministically within the bounds *)
(* below.                                                                  *)
(***************************************************************************)
EXTENDS Naturals, Integers, Sequences, FiniteSets, TLC

VARIABLES
  pc,         \* position in grep_main
  grep_ctx,   \* struct grep_ctx
  argv,       \* operands left after getopt (argv += optind), argc = Len(argv)
  file_i,     \* the file loop's i in grep_main
  fp,         \* the stream being scanned, or NoFile
  path,       \* the path grep_match_output_fp was called with
  line,       \* grep_match_output_fp: the line buffer, or NoLine
  line_i,     \* grep_match_output_fp: line_i
  match_i,    \* grep_match_output_fp: match_i
  matched,    \* the value the last grep_match_output_line returned
  stdout,     \* the write calls issued to standard output
  stderr,     \* the diagnostics issued to standard error
  faults,     \* failures the environment has answered so far
  hist,       \* the lines getline has delivered from the current stream, as read
  lines,      \* the values of line handed to grep_match_output_line, same stream
  mark,       \* Len(stdout) when the scan of the current stream began
  evaluated,  \* whether the run has handed a line to grep_match_output_line
  selected,   \* whether grep_match_output_line has selected a line in the run
  opened,     \* whether the run has called fopen or read stdin for a search
  res,        \* the regex_t handles made and released, the FILE handles open
  errno,      \* errno as the last failed fopen of a search file left it
  call,       \* a library function called on its own, with its arguments
  ret         \* what that call returned

vars == <<pc, grep_ctx, argv, file_i, fp, path, line, line_i, match_i, matched,
          stdout, stderr, faults, hist, lines, mark, evaluated, selected, opened,
          res, errno, call, ret>>

----------------------------------------------------------------------------
(* Bounds of the model.                                                    *)

(* Spec: every option, small inputs. *)
MaxFlags == 3
MaxPatterns == 2
MaxFiles == 2
MaxLines == 1
MaxFaults == 1
MaxBadOpts == 1

(* SpecMatch: the options that decide matching, rich patterns and lines. *)
MatchPatterns == 2
MatchFiles == 1
MatchLines == 1
MatchFaults == 0

(* SpecOut: the options that decide output, several files and lines. *)
OutPatterns == 1
OutFiles == 2
OutLines == 2
OutFaults == 1

(* SpecLib: the functions called on their own. *)
MaxStrLen == 3
MaxSmall == 3
LibPatterns == 1
MaxFreeCalls == 2
MaxFileLines == 2
MaxFileText == 2
LibFaults == 1

----------------------------------------------------------------------------
(* Program constants.                                                      *)

GREP_EXIT_MATCH == 0
GREP_EXIT_NOMATCH == 1
GREP_EXIT_FAILURE == 2

(* sizeof(struct grep_pattern): char * (8) + regex_t (64) + bool (1) + pad (7). *)
SIZEOF_GREP_PATTERN == 80

(* SIZE_MAX of a 15-bit size_t: sums and products of sizes stay inside 32-bit integers. *)
SIZE_MAX == 32767

----------------------------------------------------------------------------
(* The C library's string functions, on sequences of characters.           *)

NL == "\n"

(* tolower in the C locale, on the letters the model uses. *)
tolower(c) ==
  CASE c = "A" -> "a"
    [] c = "B" -> "b"
    [] OTHER -> c

FoldCase(s) == [k \in 1..Len(s) |-> tolower(s[k])]

(* strcmp(a, b) == 0 *)
strcmp_eq(a, b) == a = b

(* strcasecmp(a, b) == 0 *)
strcasecmp_eq(a, b) == FoldCase(a) = FoldCase(b)

(* The offsets (from 1) at which needle occurs in hay. *)
Occurrences(hay, needle) ==
  {k \in 1..(Len(hay) + 1) :
     /\ k + Len(needle) - 1 <= Len(hay)
     /\ SubSeq(hay, k, k + Len(needle) - 1) = needle}

(* strstr(hay, needle) != NULL *)
strstr_found(hay, needle) == Occurrences(hay, needle) # {}

(* stpcpy chains: the concatenation of the copied strings. *)
stpcpy3(a, b, c) == a \o b \o c

(* strtok(s, "\n") called until it returns NULL: the maximal runs of      *)
(* characters other than the delimiter, in order.                         *)
RECURSIVE strtok_all(_, _, _)
strtok_all(s, k, tok) ==
  IF k > Len(s)
    THEN IF tok = <<>> THEN <<>> ELSE <<tok>>
    ELSE IF s[k] = NL
      THEN IF tok = <<>>
             THEN strtok_all(s, k + 1, <<>>)
             ELSE <<tok>> \o strtok_all(s, k + 1, <<>>)
      ELSE strtok_all(s, k + 1, Append(tok, s[k]))

----------------------------------------------------------------------------
(* si_add_size_t, si_mul_size_t: the wrapped result and the wrap verdict.  *)

(* An addition that takes a sum equal to a for a wrap. *)
si_add_size_t_le(a, b) ==
  LET result == (a + b) % (SIZE_MAX + 1)
  IN  [result |-> result, wraps |-> result <= a]

si_add_size_t(a, b) ==
  LET result == (a + b) % (SIZE_MAX + 1)
  IN  [result |-> result, wraps |-> result < a]

(* A multiplication that takes the largest product that fits for a wrap. *)
si_mul_size_t_ge(a, b) ==
  LET result == (a * b) % (SIZE_MAX + 1)
  IN  [result |-> result, wraps |-> (b # 0 /\ a >= SIZE_MAX \div b)]

si_mul_size_t(a, b) ==
  LET result == (a * b) % (SIZE_MAX + 1)
  IN  [result |-> result, wraps |-> (b # 0 /\ a > SIZE_MAX \div b)]

----------------------------------------------------------------------------
(* grep_strcasestr: 0 for NULL, else the offset (from 1) of the returned   *)
(* pointer in s1.  The inner loop advances s2 only, and s2 is never        *)
(* rewound: i walks s1, j walks s2.                                        *)

RECURSIVE grep_strcasestr_loop(_, _, _, _)
grep_strcasestr_loop(s1, s2, i, j) ==
  IF i > Len(s1)
    THEN 0
    ELSE IF j > Len(s2)
      THEN i
      ELSE IF tolower(s1[i]) # tolower(s2[j])
        THEN grep_strcasestr_loop(s1, s2, i + 1, j)
        ELSE grep_strcasestr_loop(s1, s2, i, j + 1)

grep_strcasestr(s1, s2) ==
  IF s2 = <<>> THEN 1 ELSE grep_strcasestr_loop(s1, s2, 1, 1)

----------------------------------------------------------------------------
(* regcomp and regexec (POSIX, as glibc implements them) on the patterns   *)
(* the model forms: ordinary characters, '[' (which no ']' closes), and    *)
(* the "^(" ... ")$" frame of grep_pattern_add_bol_eol.                    *)
(*   basic:    '^' is an anchor at the start, '$' at the end, '(' and ')'  *)
(*             are ordinary characters;                                    *)
(*   extended: '^' and '$' are anchors, '(' ... ')' is a group, a ')'      *)
(*             without '(' is an ordinary character.                       *)
(* A compiled regex [bol, eol, lit, icase] matches a line that holds lit   *)
(* at an offset the anchors allow.                                         *)

NoRegex == [errcode |-> "uninitialized"]

HasChar(s, c) == \E k \in 1..Len(s) : s[k] = c

StripBol(p) == IF Len(p) > 0 /\ p[1] = "^" THEN Tail(p) ELSE p

StripEol(p) == IF Len(p) > 0 /\ p[Len(p)] = "$" THEN SubSeq(p, 1, Len(p) - 1) ELSE p

(* The extended syntax's groups: <<depth left open, literal text>>. *)
RECURSIVE ere_groups(_, _, _, _)
ere_groups(p, k, depth, lit) ==
  IF k > Len(p)
    THEN <<depth, lit>>
    ELSE IF p[k] = "("
      THEN ere_groups(p, k + 1, depth + 1, lit)
      ELSE IF p[k] = ")" /\ depth > 0
        THEN ere_groups(p, k + 1, depth - 1, lit)
        ELSE ere_groups(p, k + 1, depth, Append(lit, p[k]))

regcomp(pattern, extended, icase) ==
  LET bol  == Len(pattern) > 0 /\ pattern[1] = "^"
      body == StripBol(pattern)
      eol  == Len(body) > 0 /\ body[Len(body)] = "$"
      core == StripEol(body)
      g    == ere_groups(core, 1, 0, <<>>)
  IN  IF HasChar(pattern, "[")
        THEN [errcode |-> "REG_EBRACK"]
        ELSE IF extended /\ g[1] > 0
          THEN [errcode |-> "REG_EPAREN"]
          ELSE [errcode |-> "0", bol |-> bol, eol |-> eol, icase |-> icase,
                lit |-> IF extended THEN g[2] ELSE core]

(* regexec(&regex, line, 0, NULL, 0) == 0 *)
regexec_match(regex, ln) ==
  LET hay    == IF regex.icase THEN FoldCase(ln) ELSE ln
      needle == IF regex.icase THEN FoldCase(regex.lit) ELSE regex.lit
  IN  \E k \in Occurrences(hay, needle) :
        /\ regex.bol => k = 1
        /\ regex.eol => k + Len(needle) - 1 = Len(hay)

----------------------------------------------------------------------------
(* The inputs the environment draws from.  A universe U names the sets   *)
(* one specification draws its command lines, files and failures from.     *)

SeqsUpTo(S, n) == UNION {[1..k -> S] : k \in 0..n}

(* What getline delivers: the text and its newline, or, for the last     *)
(* line of a stream only, a non-empty text without one.                   *)
Terminated(txts) == [k \in 1..Len(txts) |-> Append(txts[k], NL)]

Unterminated(txts) ==
  [k \in 1..Len(txts) |->
     IF k = Len(txts) THEN txts[k] ELSE Append(txts[k], NL)]

StreamContents(txts, n) ==
  LET ts == SeqsUpTo(txts, n)
  IN  {Terminated(t) : t \in ts}
        \cup {Unterminated(t) : t \in {u \in ts : Len(u) > 0 /\ u[Len(u)] # <<>>}}

FlagNames ==
  {"line_count", "extended_reg_expr", "fixed_string", "case_insensitive",
   "write_file_names", "line_number", "quiet", "ignore_file_error",
   "invert_match", "full_string_match"}

(* Pattern files whose lines all end in a newline. *)
PatternFiles(txts, n) == {Terminated(t) : t \in SeqsUpTo(txts, n)}

Wide ==
  [flags         |-> FlagNames,
   max_flags     |-> MaxFlags,
   pattern_args  |-> { <<"a">>, <<"[">>, <<NL>> },
   pattern_files |-> PatternFiles({ <<"a">> }, 1),
   max_patterns  |-> MaxPatterns,
   paths         |-> { <<"f">> },
   max_files     |-> MaxFiles,
   streams       |-> StreamContents({ <<"a">> }, MaxLines),
   max_faults    |-> MaxFaults]

Matching ==
  [flags         |-> {"extended_reg_expr", "fixed_string", "case_insensitive",
                      "invert_match", "full_string_match"},
   max_flags     |-> 5,
   pattern_args  |-> { <<>>, <<"a">>, <<"b">>, <<"[">>, <<"a", NL, "b">> },
   pattern_files |-> StreamContents({ <<"A", "b">> }, 1),
   max_patterns  |-> MatchPatterns,
   paths         |-> { <<"f">> },
   max_files     |-> MatchFiles,
   streams       |-> StreamContents({ <<>>, <<"a">>, <<"A", "b">>, <<"(", ")">>,
                                      <<"a", "(", "b">> },
                                    MatchLines),
   max_faults    |-> MatchFaults]

Output ==
  [flags         |-> {"line_count", "write_file_names", "quiet", "line_number",
                      "invert_match", "ignore_file_error"},
   max_flags     |-> 5,
   pattern_args  |-> { <<"a">> },
   pattern_files |-> PatternFiles({ <<"a">> }, 1),
   max_patterns  |-> OutPatterns,
   paths         |-> { <<"f">>, <<"g">> },
   max_files     |-> OutFiles,
   streams       |-> StreamContents({ <<"a">>, <<"b">> }, OutLines),
   max_faults    |-> OutFaults]

(* errno after a failed fopen. *)
IgnorableErrnos ==
  {"EACCES", "EISDIR", "ELOOP", "ENAMETOOLONG", "ENOENT", "ENOTDIR", "ENXIO"}

Errnos == IgnorableErrnos \cup {"EMFILE", "ENOMEM"}

(* A FILE: the lines not yet read, whether the stream ends in a read      *)
(* error instead of end of file, and the error indicator ferror tests.    *)
NoFile == [open |-> FALSE, rest |-> <<>>, bad |-> FALSE, error |-> FALSE]

OpenFile(content, bad) ==
  [open |-> TRUE, rest |-> content, bad |-> bad, error |-> FALSE]

NoLine == <<"(null)">>

(* "(standard input)" *)
STDIN_PATH ==
  <<"(", "s", "t", "a", "n", "d", "a", "r", "d", " ", "i", "n", "p", "u", "t", ")">>

NumFlags(ctx) == Cardinality({f \in FlagNames : ctx[f]})

B2N(b) == IF b THEN 1 ELSE 0

----------------------------------------------------------------------------
(* The functions of grep.c that work on the context.  Each takes and       *)
(* returns m = [ctx, stderr, res]: struct grep_ctx, the diagnostics        *)
(* written, and the handles the C library has handed out:                  *)
(*   res.regcomp  the patterns whose regex_t regcomp has filled, in order, *)
(*   res.regfree  the patterns whose regex_t regfree was called on,        *)
(*   res.frees    how often the pattern list was released,                 *)
(*   res.open     how many FILEs fopen returned that fclose has not seen,  *)
(*   res.peak     the most FILEs that were open at a time,                 *)
(*   res.list     the block grep_ctx->pattern_list points to: "NULL" for   *)
(*                none, "live" after realloc, "freed" after free,          *)
(*   res.refreed  how often free was called on that block once freed.      *)

NoRes ==
  [regcomp |-> <<>>, regfree |-> <<>>, frees |-> 0, open |-> 0, peak |-> 0,
   list |-> "NULL", refreed |-> 0]

(* fopen returned a FILE. *)
res_fopen(m) ==
  [m EXCEPT !.res.open = @ + 1,
            !.res.peak = IF m.res.open + 1 > @ THEN m.res.open + 1 ELSE @]

(* fclose was called on a FILE. *)
res_fclose(m) == [m EXCEPT !.res.open = @ - 1]


(* A grep_warn that writes the diagnostic and leaves the status alone. *)
grep_warn_keep_status(m, msg) ==
  [m EXCEPT !.stderr = Append(@, msg)]

grep_warn(m, msg) ==
  [m EXCEPT !.ctx.status_code = GREP_EXIT_FAILURE,
            !.stderr = Append(@, msg)]

(* An append that puts the new pattern in front of the list. *)
grep_pattern_append_front(m, pattern_str, realloc_ok) ==
  IF ~realloc_ok
    THEN grep_warn(m, "realloc")
    ELSE [m EXCEPT
            !.ctx.pattern_list =
               <<[pattern  |-> pattern_str,
                  compiled |-> FALSE,
                  regex    |-> NoRegex]>> \o @,
            !.ctx.num_patterns = @ + 1]

(* An append that does not check the size of the grown list. *)
grep_pattern_append_unchecked(m, pattern_str, realloc_ok) ==
  IF ~realloc_ok
    THEN grep_warn(m, "realloc")
    ELSE [m EXCEPT
            !.ctx.pattern_list =
               Append(@, [pattern  |-> pattern_str,
                          compiled |-> FALSE,
                          regex    |-> NoRegex]),
            !.ctx.num_patterns = @ + 1]

(* realloc_ok: whether realloc returns the grown list. *)
grep_pattern_append(m, pattern_str, realloc_ok) ==
  LET add == si_add_size_t(m.ctx.num_patterns, 1)
      mul == si_mul_size_t(add.result, SIZEOF_GREP_PATTERN)
  IN  IF add.wraps \/ mul.wraps
        THEN grep_warn(m, "realloc")
        ELSE IF ~realloc_ok
          THEN grep_warn(m, "realloc")
          ELSE [m EXCEPT
                  !.ctx.pattern_list =
                     Append(@, [pattern  |-> pattern_str,
                                compiled |-> FALSE,
                                regex    |-> NoRegex]),
                  !.ctx.num_patterns = @ + 1,
                  !.res.list = "live"]

(* The outcomes the library can answer while one pattern is stored. *)
AllocOutcomes == {"ok", "strdup", "realloc"}

NumFailures(outcomes) ==
  Cardinality({k \in 1..Len(outcomes) : outcomes[k] # "ok"})

(* The strtok loop of grep_pattern_string, from token k on. *)
RECURSIVE grep_pattern_string_loop(_, _, _, _)
grep_pattern_string_loop(m, tokens, outcomes, k) ==
  IF k > Len(tokens)
    THEN m
    ELSE grep_pattern_string_loop(
           IF outcomes[k] = "strdup"
             THEN grep_warn(m, "strdup")
             ELSE grep_pattern_append(m, tokens[k], outcomes[k] = "ok"),
           tokens, outcomes, k + 1)

(* outcomes[k]: what the library answers for the k-th pattern stored. *)
grep_pattern_string(m, pattern_str, outcomes) ==
  IF pattern_str = <<>>
    THEN IF outcomes[1] = "strdup"
           THEN grep_warn(m, "strdup")
           ELSE grep_pattern_append(m, <<>>, outcomes[1] = "ok")
    ELSE grep_pattern_string_loop(m, strtok_all(pattern_str, 1, <<>>), outcomes, 1)

(* How many patterns grep_pattern_string tries to store for an argument. *)
NumStored(pattern_str) ==
  IF pattern_str = <<>> THEN 1 ELSE Len(strtok_all(pattern_str, 1, <<>>))

(* line[read - 1] = '\0': the C string left in getline's buffer. *)
ChopLast(buf) == SubSeq(buf, 1, Len(buf) - 1)

(* The getline loop of grep_pattern_file, from line k on. *)
RECURSIVE grep_pattern_file_loop(_, _, _, _)
grep_pattern_file_loop(m, content, outcomes, k) ==
  IF k > Len(content)
    THEN m
    ELSE grep_pattern_file_loop(
           grep_pattern_append(m, ChopLast(content[k]), outcomes[k] = "ok"),
           content, outcomes, k + 1)

(* fopen_ok, content, bad, fclose_ok: what the environment answers. *)
grep_pattern_file(m, fopen_ok, content, outcomes, bad, fclose_ok) ==
  IF ~fopen_ok
    THEN grep_warn(m, "fopen")
    ELSE LET m1 == grep_pattern_file_loop(res_fopen(m), content, outcomes, 1)
             m2 == IF bad THEN grep_warn(m1, "ferror") ELSE m1
             m3 == res_fclose(m2)
         IN  IF fclose_ok THEN m3 ELSE grep_warn(m3, "fclose")

(* malloc_ok: whether malloc returns the new buffer. *)
grep_pattern_add_bol_eol(m, i, malloc_ok) ==
  LET old == m.ctx.pattern_list[i].pattern
      add == si_add_size_t(Len(old), 5)
  IN  IF add.wraps
        THEN grep_warn(m, "malloc")
        ELSE IF ~malloc_ok
          THEN grep_warn(m, "malloc")
          ELSE [m EXCEPT !.ctx.pattern_list[i].pattern =
                           stpcpy3(<<"^", "(">>, old, <<")", "$">>)]

(* A compile loop that skips a pattern regcomp rejects without a word. *)
RECURSIVE grep_compile_pattern_list_loop_silent(_, _, _)
grep_compile_pattern_list_loop_silent(m, malloc_oks, i) ==
  IF i > m.ctx.num_patterns
    THEN m
    ELSE LET m1 == IF m.ctx.full_string_match
                     THEN grep_pattern_add_bol_eol(m, i, malloc_oks[i])
                     ELSE m
             re == regcomp(m1.ctx.pattern_list[i].pattern,
                           m1.ctx.extended_reg_expr, m1.ctx.case_insensitive)
             m2 == IF re.errcode = "0"
                     THEN [m1 EXCEPT !.ctx.pattern_list[i].regex = re,
                                     !.ctx.pattern_list[i].compiled = TRUE,
                                     !.res.regcomp = Append(@, i)]
                     ELSE m1
         IN  grep_compile_pattern_list_loop_silent(m2, malloc_oks, i + 1)

(* A compile loop that is left at the first pattern regcomp rejects. *)
RECURSIVE grep_compile_pattern_list_loop_stop(_, _, _)
grep_compile_pattern_list_loop_stop(m, malloc_oks, i) ==
  IF i > m.ctx.num_patterns
    THEN m
    ELSE LET m1 == IF m.ctx.full_string_match
                     THEN grep_pattern_add_bol_eol(m, i, malloc_oks[i])
                     ELSE m
             re == regcomp(m1.ctx.pattern_list[i].pattern,
                           m1.ctx.extended_reg_expr, m1.ctx.case_insensitive)
         IN  IF re.errcode = "0"
               THEN grep_compile_pattern_list_loop_stop(
                      [m1 EXCEPT !.ctx.pattern_list[i].regex = re,
                                 !.ctx.pattern_list[i].compiled = TRUE,
                                 !.res.regcomp = Append(@, i)],
                      malloc_oks, i + 1)
               ELSE grep_warn(m1, "regcomp")

(* The loop of grep_compile_pattern_list, from pattern i on. *)
RECURSIVE grep_compile_pattern_list_loop(_, _, _)
grep_compile_pattern_list_loop(m, malloc_oks, i) ==
  IF i > m.ctx.num_patterns
    THEN m
    ELSE LET m1 == IF m.ctx.full_string_match
                     THEN grep_pattern_add_bol_eol(m, i, malloc_oks[i])
                     ELSE m
             re == regcomp(m1.ctx.pattern_list[i].pattern,
                           m1.ctx.extended_reg_expr, m1.ctx.case_insensitive)
             m2 == IF re.errcode = "0"
                     THEN [m1 EXCEPT !.ctx.pattern_list[i].regex = re,
                                     !.ctx.pattern_list[i].compiled = TRUE,
                                     !.res.regcomp = Append(@, i)]
                     ELSE grep_warn(m1, "regcomp")
         IN  grep_compile_pattern_list_loop(m2, malloc_oks, i + 1)

(* A compile step that leaves the list as it is. *)
grep_compile_pattern_list_skipped(m, malloc_oks) == m

grep_compile_pattern_list(m, malloc_oks) ==
  grep_compile_pattern_list_loop(m, malloc_oks, 1)

(* A loop that calls regfree for every pattern, compiled or not. *)
RECURSIVE grep_free_pattern_list_loop_all(_, _)
grep_free_pattern_list_loop_all(m, i) ==
  IF i > m.ctx.num_patterns
    THEN m
    ELSE grep_free_pattern_list_loop_all(
           [m EXCEPT !.res.regfree = Append(@, i),
                     !.ctx.pattern_list[i].compiled = FALSE],
           i + 1)

(* The loop of grep_free_pattern_list, from pattern i on: regfree for the *)
(* patterns marked compiled.                                               *)
RECURSIVE grep_free_pattern_list_loop(_, _)
grep_free_pattern_list_loop(m, i) ==
  IF i > m.ctx.num_patterns
    THEN m
    ELSE grep_free_pattern_list_loop(
           IF m.ctx.pattern_list[i].compiled
             THEN [m EXCEPT !.res.regfree = Append(@, i),
                            !.ctx.pattern_list[i].compiled = FALSE]
             ELSE m,
           i + 1)

grep_free_pattern_list(m) ==
  [grep_free_pattern_list_loop(m, 1) EXCEPT
     !.ctx.pattern_list = <<>>,
     !.ctx.num_patterns = 0,
     !.res.frees = @ + 1,
     !.res.list = IF @ = "NULL" THEN "NULL" ELSE "freed",
     !.res.refreed = IF m.res.list = "freed" THEN @ + 1 ELSE @]

----------------------------------------------------------------------------
(* The match functions and grep_match_output_line.                         *)

grep_match_fixed_strcmp(pattern, ln) == strcmp_eq(ln, pattern.pattern)

grep_match_fixed_strcasecmp(pattern, ln) == strcasecmp_eq(ln, pattern.pattern)

grep_match_fixed_strstr(pattern, ln) == strstr_found(ln, pattern.pattern)

grep_match_fixed_strcasestr(pattern, ln) ==
  grep_strcasestr(ln, pattern.pattern) # 0

(* ub: what regexec answers on a regex_t that regcomp never filled. *)
grep_match_regex(pattern, ln, ub) ==
  IF pattern.compiled THEN regexec_match(pattern.regex, ln) ELSE ub

(* grep_ctx->fn_match(pattern, line) *)
fn_match_call(fn, pattern, ln, ub) ==
  CASE fn = "grep_match_fixed_strcmp"     -> grep_match_fixed_strcmp(pattern, ln)
    [] fn = "grep_match_fixed_strcasecmp" -> grep_match_fixed_strcasecmp(pattern, ln)
    [] fn = "grep_match_fixed_strstr"     -> grep_match_fixed_strstr(pattern, ln)
    [] fn = "grep_match_fixed_strcasestr" -> grep_match_fixed_strcasestr(pattern, ln)
    [] fn = "grep_match_regex"            -> grep_match_regex(pattern, ln, ub)
    [] OTHER                              -> ub

(* A choice of the match function that does not look at -x. *)
grep_set_fn_match_substring(ctx) ==
  [ctx EXCEPT !.fn_match =
     IF ctx.fixed_string
       THEN IF ctx.case_insensitive
              THEN "grep_match_fixed_strcasestr"
              ELSE "grep_match_fixed_strstr"
       ELSE "grep_match_regex"]

grep_set_fn_match(ctx) ==
  [ctx EXCEPT !.fn_match =
     IF ctx.fixed_string
       THEN IF ctx.case_insensitive
              THEN IF ctx.full_string_match
                     THEN "grep_match_fixed_strcasecmp"
                     ELSE "grep_match_fixed_strcasestr"
              ELSE IF ctx.full_string_match
                     THEN "grep_match_fixed_strcmp"
                     ELSE "grep_match_fixed_strstr"
       ELSE "grep_match_regex"]

(* A pattern loop in which the last pattern's answer replaces the others'. *)
RECURSIVE grep_match_output_line_loop_last(_, _, _, _, _)
grep_match_output_line_loop_last(ctx, ln, ub, i, m) ==
  IF i > ctx.num_patterns
    THEN m
    ELSE grep_match_output_line_loop_last(
           ctx, ln, ub, i + 1,
           fn_match_call(ctx.fn_match, ctx.pattern_list[i], ln, ub))

(* The pattern loop of grep_match_output_line, from pattern i on. *)
RECURSIVE grep_match_output_line_loop(_, _, _, _, _)
grep_match_output_line_loop(ctx, ln, ub, i, m) ==
  IF i > ctx.num_patterns
    THEN m
    ELSE grep_match_output_line_loop(
           ctx, ln, ub, i + 1,
           IF fn_match_call(ctx.fn_match, ctx.pattern_list[i], ln, ub)
             THEN TRUE
             ELSE m)

grep_match_output_line(ctx, ln, ub) ==
  LET m == grep_match_output_line_loop(ctx, ln, ub, 1, FALSE)
  IN  IF ctx.invert_match THEN ~m ELSE m

(* printf's %d for a number that is not negative. *)
Digits == <<"0", "1", "2", "3", "4", "5", "6", "7", "8", "9">>

RECURSIVE Decimal(_)
Decimal(n) ==
  IF n < 10
    THEN <<Digits[n + 1]>>
    ELSE Append(Decimal(n \div 10), Digits[(n % 10) + 1])

----------------------------------------------------------------------------
(* The state machine of grep_main.                                         *)

M == [ctx |-> grep_ctx, stderr |-> stderr, res |-> res]

Put(m) == grep_ctx' = m.ctx /\ stderr' = m.stderr /\ res' = m.res

streamvars == <<file_i, fp, path, line, line_i, match_i, matched, hist, lines, mark>>

ghostvars == <<evaluated, selected, opened>>

restvars == <<errno, call, ret>>

(* A run of grep_main calls no function on its own. *)
NoCall == [fn |-> "none"]

NoRet == [done |-> FALSE]

(* grep_main is entered. *)
Start ==
  /\ pc = "getopt"
  /\ grep_ctx = [status_code       |-> GREP_EXIT_NOMATCH,
                 num_files         |-> 0,
                 line_count        |-> FALSE,
                 extended_reg_expr |-> FALSE,
                 fixed_string      |-> FALSE,
                 case_insensitive  |-> FALSE,
                 write_file_names  |-> FALSE,
                 line_number       |-> FALSE,
                 quiet             |-> FALSE,
                 ignore_file_error |-> FALSE,
                 invert_match      |-> FALSE,
                 full_string_match |-> FALSE,
                 pattern_list      |-> <<>>,
                 num_patterns      |-> 0,
                 fn_match          |-> "NULL"]
  /\ argv = <<>>
  /\ file_i = 0
  /\ fp = NoFile
  /\ path = <<>>
  /\ line = NoLine
  /\ line_i = 0
  /\ match_i = 0
  /\ matched = FALSE
  /\ stdout = <<>>
  /\ stderr = <<>>
  /\ faults = 0
  /\ hist = <<>>
  /\ lines = <<>>
  /\ mark = 0
  /\ evaluated = FALSE
  /\ selected = FALSE
  /\ opened = FALSE
  /\ res = NoRes
  /\ errno = "0"

Init == Start /\ call = NoCall /\ ret = NoRet

(* getopt returns one of c, E, F, i, l, n, q, s, v, x. *)
GetoptFlag(U) ==
  /\ pc = "getopt"
  /\ \E f \in U.flags :
       /\ ~grep_ctx[f]
       /\ NumFlags(grep_ctx) < U.max_flags
       /\ grep_ctx' = [grep_ctx EXCEPT ![f] = TRUE]
  /\ UNCHANGED <<pc, argv, streamvars, stdout, stderr, faults, ghostvars, res, restvars>>

(* getopt returns e: grep_pattern_string(optarg). *)
GetoptPatternString(U) ==
  /\ pc = "getopt"
  /\ \E optarg \in U.pattern_args :
       /\ grep_ctx.num_patterns + NumStored(optarg) <= U.max_patterns
       /\ \E outcomes \in [1..NumStored(optarg) -> AllocOutcomes] :
            /\ faults + NumFailures(outcomes) <= U.max_faults
            /\ faults' = faults + NumFailures(outcomes)
            /\ Put(grep_pattern_string(M, optarg, outcomes))
  /\ UNCHANGED <<pc, argv, streamvars, stdout, ghostvars, restvars>>

(* getopt returns f: grep_pattern_file(optarg). *)
GetoptPatternFile(U) ==
  /\ pc = "getopt"
  /\ \E fopen_ok \in BOOLEAN, bad \in BOOLEAN, fclose_ok \in BOOLEAN :
     \E content \in IF fopen_ok THEN U.pattern_files ELSE {<<>>} :
       /\ ~fopen_ok => ~bad /\ fclose_ok
       /\ grep_ctx.num_patterns + Len(content) <= U.max_patterns
       /\ \E outcomes \in [1..Len(content) -> {"ok", "realloc"}] :
            LET n == NumFailures(outcomes) + B2N(~fopen_ok) + B2N(bad) + B2N(~fclose_ok)
            IN  /\ faults + n <= U.max_faults
                /\ faults' = faults + n
                /\ Put(grep_pattern_file(M, fopen_ok, content, outcomes, bad, fclose_ok))
  /\ UNCHANGED <<pc, argv, streamvars, stdout, ghostvars, restvars>>

(* getopt returns '?' (and has written its own diagnostic): the default case. *)
GetoptInvalid ==
  /\ pc = "getopt"
  /\ Cardinality({k \in 1..Len(stderr) : stderr[k] = "getopt"}) < MaxBadOpts
  /\ grep_ctx' = [grep_ctx EXCEPT !.status_code = GREP_EXIT_FAILURE]
  /\ stderr' = Append(stderr, "getopt")
  /\ UNCHANGED <<pc, argv, streamvars, stdout, faults, ghostvars, res, restvars>>

(* The operands a command line can hold after its options. *)
FileLists(U) == SeqsUpTo(U.paths, U.max_files)

OperandLists(U, ctx) ==
  IF ctx.num_patterns = 0
    THEN {<<>>} \cup {<<p>> \o fl : p \in U.pattern_args \cup U.paths, fl \in FileLists(U)}
    ELSE FileLists(U)

(* Usage checks that let -E and -F through together. *)
usage_checks_no_EF(m) ==
  LET c == m.ctx
  IN  IF \/ c.line_count /\ c.write_file_names
         \/ c.line_count /\ c.quiet
         \/ c.write_file_names /\ c.quiet
        THEN grep_warn(m, "[-c|-l|-q]")
        ELSE m

(* The checks of grep_main for options that exclude each other. *)
usage_checks(m) ==
  LET c  == m.ctx
      m1 == IF c.extended_reg_expr /\ c.fixed_string
              THEN grep_warn(m, "[-E|-F]")
              ELSE m
  IN  IF \/ c.line_count /\ c.write_file_names
         \/ c.line_count /\ c.quiet
         \/ c.write_file_names /\ c.quiet
        THEN grep_warn(m1, "[-c|-l|-q]")
        ELSE m1

(* getopt returns -1; argc -= optind, argv += optind; the two usage checks. *)
GetoptEnd(U) ==
  /\ pc = "getopt"
  /\ \E operands \in OperandLists(U, grep_ctx) : argv' = operands
  /\ Put(usage_checks(M))
  /\ pc' = "pattern_operand"
  /\ UNCHANGED <<streamvars, stdout, faults, ghostvars, restvars>>

(* if(grep_ctx.num_patterns == 0) ... : the pattern list operand. *)
PatternOperand(U) ==
  /\ pc = "pattern_operand"
  /\ IF grep_ctx.num_patterns # 0
       THEN UNCHANGED <<grep_ctx, stderr, res, argv, faults>>
       ELSE IF Len(argv) < 1
         THEN /\ Put(grep_warn(M, "missing pattern_list"))
              /\ UNCHANGED <<argv, faults>>
         ELSE /\ \E outcomes \in [1..NumStored(argv[1]) -> AllocOutcomes] :
                   /\ faults + NumFailures(outcomes) <= U.max_faults
                   /\ faults' = faults + NumFailures(outcomes)
                   /\ Put(grep_pattern_string(M, argv[1], outcomes))
              /\ argv' = Tail(argv)
  /\ pc' = "set_fn_match"
  /\ UNCHANGED <<streamvars, stdout, ghostvars, restvars>>

(* grep_set_fn_match(&grep_ctx) *)
SetFnMatch ==
  /\ pc = "set_fn_match"
  /\ grep_ctx' = grep_set_fn_match(grep_ctx)
  /\ pc' = "compile"
  /\ UNCHANGED <<argv, streamvars, stdout, stderr, faults, ghostvars, res, restvars>>

(* if(!grep_ctx.fixed_string) grep_compile_pattern_list(&grep_ctx) *)
Compile(U) ==
  /\ pc = "compile"
  /\ IF grep_ctx.fixed_string
       THEN UNCHANGED <<grep_ctx, stderr, res, faults>>
       ELSE \E malloc_oks \in [1..grep_ctx.num_patterns -> BOOLEAN] :
              LET n == Cardinality({k \in 1..grep_ctx.num_patterns : ~malloc_oks[k]})
              IN  /\ ~grep_ctx.full_string_match => n = 0
                  /\ faults + n <= U.max_faults
                  /\ faults' = faults + n
                  /\ Put(grep_compile_pattern_list(M, malloc_oks))
  /\ pc' = "scan"
  /\ UNCHANGED <<argv, streamvars, stdout, ghostvars, restvars>>

(* A write call: the diagnostic's name should it fail, and the bytes. *)
WriteCall(name, bytes) == [name |-> name, bytes |-> bytes]

RECURSIVE BytesOf(_)
BytesOf(calls) ==
  IF calls = <<>> THEN <<>> ELSE Head(calls).bytes \o BytesOf(Tail(calls))

(* grep_warn for every call of calls, from call k on, that is in fails. *)
RECURSIVE WarnFailed(_, _, _, _)
WarnFailed(m, calls, fails, k) ==
  IF k > Len(calls)
    THEN m
    ELSE WarnFailed(IF k \in fails THEN grep_warn(m, calls[k].name) ELSE m,
                    calls, fails, k + 1)

(* Line output that does not look at the quiet flag. *)
LineCalls_loud(ctx, pth, n, ln) ==
  IF ctx.write_file_names
    THEN <<WriteCall("puts", Append(pth, NL))>>
    ELSE IF ctx.line_count = FALSE
      THEN (IF ctx.num_files > 1
              THEN <<WriteCall("fputs", Append(pth, ":"))>>
              ELSE <<>>)
           \o (IF ctx.line_number
                 THEN <<WriteCall("printf", Append(Decimal(n), ":"))>>
                 ELSE <<>>)
           \o <<WriteCall("puts", Append(ln, NL))>>
      ELSE <<>>

(* Line output that numbers the lines of a stream from 0. *)
LineCalls_zero_based(ctx, pth, n, ln) ==
  IF ctx.write_file_names
    THEN <<WriteCall("puts", Append(pth, NL))>>
    ELSE IF ctx.quiet = FALSE /\ ctx.line_count = FALSE
      THEN (IF ctx.num_files > 1
              THEN <<WriteCall("fputs", Append(pth, ":"))>>
              ELSE <<>>)
           \o (IF ctx.line_number
                 THEN <<WriteCall("printf", Append(Decimal(n - 1), ":"))>>
                 ELSE <<>>)
           \o <<WriteCall("puts", Append(ln, NL))>>
      ELSE <<>>

(* The write calls of one loop iteration of grep_match_output_fp for a    *)
(* selected line.                                                          *)
LineCalls(ctx, pth, n, ln) ==
  IF ctx.write_file_names
    THEN <<WriteCall("puts", Append(pth, NL))>>
    ELSE IF ctx.quiet = FALSE /\ ctx.line_count = FALSE
      THEN (IF ctx.num_files > 1
              THEN <<WriteCall("fputs", Append(pth, ":"))>>
              ELSE <<>>)
           \o (IF ctx.line_number
                 THEN <<WriteCall("printf", Append(Decimal(n), ":"))>>
                 ELSE <<>>)
           \o <<WriteCall("puts", Append(ln, NL))>>
      ELSE <<>>

(* A count that is written only when it is not zero. *)
CountCalls_nonzero(ctx, pth, n) ==
  IF ctx.line_count /\ n > 0
    THEN (IF ctx.num_files > 1
            THEN <<WriteCall("fputs", Append(pth, ":"))>>
            ELSE <<>>)
         \o <<WriteCall("printf", Append(Decimal(n), NL))>>
    ELSE <<>>

(* The write calls after the loop. *)
CountCalls(ctx, pth, n) ==
  IF ctx.line_count
    THEN (IF ctx.num_files > 1
            THEN <<WriteCall("fputs", Append(pth, ":"))>>
            ELSE <<>>)
         \o <<WriteCall("printf", Append(Decimal(n), NL))>>
    ELSE <<>>

(* A selected line that sets the status whatever it was. *)
status_on_match_unguarded(ctx) == [ctx EXCEPT !.status_code = GREP_EXIT_MATCH]

(* A loop that no selected line ends. *)
breaks_loop_never(ctx) == FALSE

(* A loop that a selected line ends once the status is FAILURE. *)
breaks_loop_on_failure(ctx) ==
  ctx.write_file_names \/ ctx.status_code = GREP_EXIT_FAILURE

(* A line is selected: if(grep_ctx->status_code != GREP_EXIT_FAILURE) ... *)
status_on_match(ctx) ==
  IF ctx.status_code # GREP_EXIT_FAILURE
    THEN [ctx EXCEPT !.status_code = GREP_EXIT_MATCH]
    ELSE ctx

(* A line is selected: whether the loop is left (the break after puts(path)). *)
breaks_loop(ctx) == ctx.write_file_names

(* grep_match_output_fp is entered: its locals are set. *)
EnterFp(pth, content, bad) ==
  /\ fp' = OpenFile(content, bad)
  /\ path' = pth
  /\ line' = NoLine
  /\ line_i' = 1
  /\ match_i' = 0
  /\ matched' = FALSE
  /\ hist' = <<>>
  /\ lines' = <<>>
  /\ mark' = Len(stdout)
  /\ opened' = TRUE

(* if(grep_ctx.status_code != GREP_EXIT_FAILURE) ... : stdin or the file loop. *)
BeginScan(U) ==
  /\ pc = "scan"
  /\ IF grep_ctx.status_code = GREP_EXIT_FAILURE
       THEN /\ pc' = "free"
            /\ UNCHANGED <<grep_ctx, streamvars, faults, opened>>
       ELSE IF Len(argv) < 1
         THEN /\ grep_ctx' = [grep_ctx EXCEPT !.num_files = 1]
              /\ \E content \in U.streams, bad \in BOOLEAN :
                   /\ faults + B2N(bad) <= U.max_faults
                   /\ faults' = faults + B2N(bad)
                   /\ EnterFp(STDIN_PATH, content, bad)
              /\ pc' = "getline"
              /\ UNCHANGED file_i
         ELSE /\ grep_ctx' = [grep_ctx EXCEPT !.num_files = Len(argv)]
              /\ file_i' = 0
              /\ pc' = "fopen"
              /\ UNCHANGED <<fp, path, line, line_i, match_i, matched, hist, lines, mark,
                             faults, opened>>
  /\ UNCHANGED <<argv, stdout, stderr, evaluated, selected, res, restvars>>

(* fopen_error_display without the test of ignore_file_error. *)
fopen_error_display_unasked(ctx, e) == e \notin IgnorableErrnos

(* if(fp == NULL): whether the failure of fopen with errno e is reported. *)
fopen_error_display(ctx, e) ==
  IF ctx.ignore_file_error
    THEN e \notin IgnorableErrnos
    ELSE TRUE

(* grep_match_output_path: fopen and, when it fails, the -s filter. *)
Fopen(U) ==
  /\ pc = "fopen"
  /\ file_i < Len(argv)
  /\ \/ \E content \in U.streams, bad \in BOOLEAN :
          /\ faults + B2N(bad) <= U.max_faults
          /\ faults' = faults + B2N(bad)
          /\ EnterFp(argv[file_i + 1], content, bad)
          /\ res' = res_fopen(M).res
          /\ pc' = "getline"
          /\ UNCHANGED <<grep_ctx, stderr, file_i, errno>>
     \/ \E e \in Errnos :
          /\ faults + 1 <= U.max_faults
          /\ faults' = faults + 1
          /\ errno' = e
          /\ Put(IF fopen_error_display(grep_ctx, e)
                   THEN grep_warn(M, "fopen")
                   ELSE M)
          /\ file_i' = file_i + 1
          /\ opened' = TRUE
          /\ pc' = "fopen"
          /\ UNCHANGED <<fp, path, line, line_i, match_i, matched, hist, lines, mark>>
  /\ UNCHANGED <<argv, stdout, evaluated, selected, call, ret>>

(* for(i = 0; i < argc; i++) ends. *)
FilesDone ==
  /\ pc = "fopen"
  /\ file_i >= Len(argv)
  /\ pc' = "free"
  /\ UNCHANGED <<grep_ctx, argv, streamvars, stdout, stderr, faults, ghostvars, res, restvars>>

(* A count that takes every line read for a selected one. *)
count_match_every_line(n, mt) == n + 1

(* if(grep_match_output_line(grep_ctx, line)){ match_i += 1; ... *)
count_match(n, mt) == IF mt THEN n + 1 ELSE n

(* One iteration of the getline loop: getline delivers a line. *)
ReadLine(U) ==
  /\ pc = "getline"
  /\ fp.rest # <<>>
  /\ \E ub \in BOOLEAN :
       LET buf   == Head(fp.rest)
           ln    == ChopLast(buf)
           mt    == grep_match_output_line(grep_ctx, ln, ub)
           ctx1  == IF mt THEN status_on_match(grep_ctx) ELSE grep_ctx
           calls == IF mt THEN LineCalls(grep_ctx, path, line_i, ln) ELSE <<>>
           brk   == mt /\ breaks_loop(grep_ctx)
       IN  /\ fp' = [fp EXCEPT !.rest = Tail(@)]
           /\ hist' = Append(hist, buf)
           /\ lines' = Append(lines, ln)
           /\ line' = ln
           /\ matched' = mt
           /\ evaluated' = TRUE
           /\ selected' = (selected \/ mt)
           /\ match_i' = count_match(match_i, mt)
           /\ \E fails \in SUBSET (1..Len(calls)) :
                /\ faults + Cardinality(fails) <= U.max_faults
                /\ faults' = faults + Cardinality(fails)
                /\ Put(WarnFailed([M EXCEPT !.ctx = ctx1], calls, fails, 1))
           /\ stdout' = stdout \o BytesOf(calls)
           /\ line_i' = IF brk THEN line_i ELSE line_i + 1
           /\ pc' = IF brk THEN "post" ELSE "getline"
  /\ UNCHANGED <<argv, file_i, path, mark, opened, restvars>>

(* getline returns -1: end of file, or a read error. *)
GetlineEnd ==
  /\ pc = "getline"
  /\ fp.rest = <<>>
  /\ fp' = [fp EXCEPT !.error = fp.bad]
  /\ pc' = "post"
  /\ UNCHANGED <<grep_ctx, argv, file_i, path, line, line_i, match_i, matched, hist,
                 lines, mark, stdout, stderr, faults, ghostvars, res, restvars>>

(* After the loop: ferror, free(line), the count. *)
PostLoop(U) ==
  /\ pc = "post"
  /\ LET m1    == IF fp.error THEN grep_warn(M, "ferror") ELSE M
         calls == CountCalls(grep_ctx, path, match_i)
     IN  \E fails \in SUBSET (1..Len(calls)) :
           /\ faults + Cardinality(fails) <= U.max_faults
           /\ faults' = faults + Cardinality(fails)
           /\ Put(WarnFailed(m1, calls, fails, 1))
           /\ stdout' = stdout \o BytesOf(calls)
  /\ line' = NoLine
  /\ pc' = IF Len(argv) < 1 THEN "free" ELSE "fclose"
  /\ UNCHANGED <<argv, file_i, fp, path, line_i, match_i, matched, hist, lines, mark,
                 ghostvars, restvars>>

(* grep_match_output_path: fclose, and the return to the file loop. *)
Fclose(U) ==
  /\ pc = "fclose"
  /\ \E fclose_ok \in BOOLEAN :
       /\ faults + B2N(~fclose_ok) <= U.max_faults
       /\ faults' = faults + B2N(~fclose_ok)
       /\ Put(IF fclose_ok THEN res_fclose(M) ELSE grep_warn(res_fclose(M), "fclose"))
  /\ fp' = NoFile
  /\ path' = <<>>
  /\ line_i' = 0
  /\ match_i' = 0
  /\ matched' = FALSE
  /\ hist' = <<>>
  /\ lines' = <<>>
  /\ mark' = Len(stdout)
  /\ file_i' = file_i + 1
  /\ pc' = "fopen"
  /\ UNCHANGED <<argv, line, stdout, ghostvars, restvars>>

(* grep_free_pattern_list(&grep_ctx); return grep_ctx.status_code. *)
Free ==
  /\ pc = "free"
  /\ Put(grep_free_pattern_list(M))
  /\ pc' = "done"
  /\ UNCHANGED <<argv, streamvars, stdout, faults, ghostvars, restvars>>

Next(U) ==
  \/ GetoptFlag(U)
  \/ GetoptPatternString(U)
  \/ GetoptPatternFile(U)
  \/ GetoptInvalid
  \/ GetoptEnd(U)
  \/ PatternOperand(U)
  \/ SetFnMatch
  \/ Compile(U)
  \/ BeginScan(U)
  \/ Fopen(U)
  \/ FilesDone
  \/ ReadLine(U)
  \/ GetlineEnd
  \/ PostLoop(U)
  \/ Fclose(U)
  \/ Free

Spec == Init /\ [][Next(Wide)]_vars

SpecMatch == Init /\ [][Next(Matching)]_vars

SpecOut == Init /\ [][Next(Output)]_vars

----------------------------------------------------------------------------
(* The functions of grep.c called on their own: SpecLib draws a call, the *)
(* function runs, ret holds what it returned.                              *)

runvars == <<pc, grep_ctx, argv, streamvars, stdout, stderr, faults, ghostvars,
             res, errno>>

(* The largest r with r * r <= SIZE_MAX. *)
RootOfSizeMax ==
  CHOOSE r \in 0..SIZE_MAX : r * r <= SIZE_MAX /\ (r + 1) * (r + 1) > SIZE_MAX

(* size_t values: the small ones, those around SIZE_MAX / d for a small d, *)
(* and those around the square root of SIZE_MAX.                           *)
SizeSamples ==
  {v \in (0..MaxSmall)
           \cup {SIZE_MAX \div d + e : d \in 1..(MaxSmall + 1), e \in {-1, 0, 1}}
           \cup {RootOfSizeMax + e : e \in {-1, 0, 1}} :
     v >= 0 /\ v <= SIZE_MAX}

(* A context that holds the patterns of store and nothing else. *)
ContextWith(store) ==
  [ctx    |-> [grep_ctx EXCEPT
                 !.pattern_list = [k \in 1..Len(store) |->
                                     [pattern  |-> store[k],
                                      compiled |-> FALSE,
                                      regex    |-> NoRegex]],
                 !.num_patterns = Len(store)],
   stderr |-> <<>>,
   res    |-> [NoRes EXCEPT !.list = IF store = <<>> THEN "NULL" ELSE "live"]]

(* Pattern counts: the small ones, and the two around the count at which   *)
(* the size of the grown list no longer fits a size_t.                     *)
AppendCounts ==
  (0..LibPatterns)
    \cup {SIZE_MAX \div SIZEOF_GREP_PATTERN - 1, SIZE_MAX \div SIZEOF_GREP_PATTERN}

(* A store of n patterns. *)
StoreOf(n) == [k \in 1..n |-> <<"c">>]

LibCalls ==
  {[fn |-> "grep_strcasestr", s1 |-> s1, s2 |-> s2] :
     s1 \in SeqsUpTo({"a", "A", "b"}, MaxStrLen),
     s2 \in SeqsUpTo({"a", "A", "b"}, MaxStrLen)}
  \cup {[fn |-> f, a |-> a, b |-> b] :
          f \in {"si_add_size_t", "si_mul_size_t"},
          a \in SizeSamples, b \in SizeSamples}
  \cup UNION {{[fn |-> "grep_pattern_string", store |-> st,
                pattern_str |-> str, outcomes |-> o] :
                 o \in {x \in [1..NumStored(str) -> AllocOutcomes] :
                          NumFailures(x) <= LibFaults}} :
               st \in SeqsUpTo({<<"c">>}, LibPatterns),
               str \in SeqsUpTo({"a", "b", NL}, MaxStrLen)}
  \cup {[fn |-> "grep_pattern_append", count |-> n, pattern_str |-> str,
         realloc_ok |-> ok] :
          n \in AppendCounts,
          str \in SeqsUpTo({"a", "b"}, MaxStrLen),
          ok \in BOOLEAN}
  \cup UNION {{[fn |-> "grep_pattern_file", store |-> st, s |-> s,
                fopen_ok |-> TRUE, content |-> c, outcomes |-> o,
                bad |-> bad, fclose_ok |-> fc] :
                 o \in {x \in [1..Len(c) -> {"ok", "realloc"}] :
                          NumFailures(x) <= LibFaults},
                 s \in BOOLEAN, bad \in BOOLEAN, fc \in BOOLEAN} :
               st \in SeqsUpTo({<<"c">>}, LibPatterns),
               c \in StreamContents(SeqsUpTo({"a", "b"}, MaxFileText), MaxFileLines)}
  \cup {[fn |-> "grep_pattern_file", store |-> st, s |-> s,
         fopen_ok |-> FALSE, content |-> <<>>, outcomes |-> <<>>,
         bad |-> FALSE, fclose_ok |-> TRUE] :
          st \in SeqsUpTo({<<"c">>}, LibPatterns), s \in BOOLEAN}
  \cup {[fn |-> "grep_free_pattern_list", count |-> n, compiled |-> c,
         calls |-> k] :
          n \in 0..(LibPatterns + 1), c \in BOOLEAN, k \in 1..MaxFreeCalls}

InitLib == Start /\ call \in LibCalls /\ ret = NoRet

Returns(value) == ret' = [done |-> TRUE, value |-> value]

CallStrcasestr ==
  /\ call.fn = "grep_strcasestr" /\ ~ret.done
  /\ Returns(grep_strcasestr(call.s1, call.s2))
  /\ UNCHANGED <<call, runvars>>

CallAdd ==
  /\ call.fn = "si_add_size_t" /\ ~ret.done
  /\ Returns(si_add_size_t(call.a, call.b))
  /\ UNCHANGED <<call, runvars>>

CallMul ==
  /\ call.fn = "si_mul_size_t" /\ ~ret.done
  /\ Returns(si_mul_size_t(call.a, call.b))
  /\ UNCHANGED <<call, runvars>>

CallPatternString ==
  /\ call.fn = "grep_pattern_string" /\ ~ret.done
  /\ Returns(grep_pattern_string(ContextWith(call.store), call.pattern_str,
                                 call.outcomes))
  /\ UNCHANGED <<call, runvars>>

CallPatternAppend ==
  /\ call.fn = "grep_pattern_append" /\ ~ret.done
  /\ Returns(grep_pattern_append(ContextWith(StoreOf(call.count)),
                                 call.pattern_str, call.realloc_ok))
  /\ UNCHANGED <<call, runvars>>

(* grep_pattern_file on a context with or without -s. *)
CallPatternFile ==
  /\ call.fn = "grep_pattern_file" /\ ~ret.done
  /\ Returns(grep_pattern_file(
               [ContextWith(call.store) EXCEPT !.ctx.ignore_file_error = call.s],
               call.fopen_ok, call.content, call.outcomes, call.bad,
               call.fclose_ok))
  /\ UNCHANGED <<call, runvars>>

(* A context that holds n patterns, compiled or not. *)
CompiledContext(n, compiled) ==
  LET m == ContextWith(StoreOf(n))
  IN  IF compiled
        THEN [m EXCEPT
                !.ctx.pattern_list =
                   [k \in 1..n |->
                      [pattern  |-> <<"c">>,
                       compiled |-> TRUE,
                       regex    |-> regcomp(<<"c">>, FALSE, FALSE)]],
                !.res.regcomp = [k \in 1..n |-> k]]
        ELSE m

(* grep_free_pattern_list, called call.calls times on the same context. A  *)
(* free of a block that was freed before is undefined: the call returns or *)
(* the process is aborted.                                                 *)
CallFreePatternList ==
  /\ call.fn = "grep_free_pattern_list"
  /\ IF ret.done THEN ret.n < call.calls /\ ret.ub # "aborts" ELSE TRUE
  /\ LET m     == IF ret.done
                    THEN ret.value
                    ELSE CompiledContext(call.count, call.compiled)
         after == grep_free_pattern_list(m)
     IN  \E ub \in {"none", "returns", "aborts"} :
           /\ (ub = "none") <=> (after.res.refreed = m.res.refreed)
           /\ ret' = [done |-> TRUE, value |-> after,
                      n |-> IF ret.done THEN ret.n + 1 ELSE 1, ub |-> ub]
  /\ UNCHANGED <<call, runvars>>

NextLib ==
  \/ CallStrcasestr
  \/ CallAdd
  \/ CallMul
  \/ CallPatternString
  \/ CallPatternAppend
  \/ CallFreePatternList
  \/ CallPatternFile

SpecLib == InitLib /\ [][NextLib]_vars

(***************************************************************************)
(* Properties.                                                             *)
(***************************************************************************)

(* The bytes written since the current stream was entered. *)
StreamOut == SubSeq(stdout, mark + 1, Len(stdout))

(* The getline loop of the current stream is running or has just ended. *)
InLoop == pc \in {"getline", "post"}

(* grep_match_output_fp has returned for the current stream. *)
StreamEnded == pc = "fclose" \/ (pc = "free" /\ fp.open)

(* What grep_match_output_line answers for a text under the current options. *)
Selects(ln) == grep_match_output_line(grep_ctx, ln, FALSE)

(* The positions in the current stream of the lines that were selected. *)
SelectedLines == {k \in 1..Len(lines) : Selects(lines[k])}

(* fn_match answers TRUE for some pattern of the list. *)
AnyPatternMatches(ctx, ln) ==
  \E i \in 1..ctx.num_patterns :
    fn_match_call(ctx.fn_match, ctx.pattern_list[i], ln, FALSE)

(* The context with its pattern list rearranged by pi. *)
Permuted(ctx, pi) ==
  [ctx EXCEPT !.pattern_list =
     [k \in 1..ctx.num_patterns |-> ctx.pattern_list[pi[k]]]]

(* C1: the value grep_match_output_line returned for the last line is TRUE *)
(* exactly when fn_match answers TRUE for some pattern of the list, or,    *)
(* with -v, exactly when it does for none; and the same value comes out    *)
(* for every rearrangement of the pattern list.                            *)
C1_SelectedIffSomePatternMatches ==
  (InLoop /\ line # NoLine) =>
    /\ matched = (AnyPatternMatches(grep_ctx, line) # grep_ctx.invert_match)
    /\ \A pi \in Permutations(1..grep_ctx.num_patterns) :
         grep_match_output_line(Permuted(grep_ctx, pi), line, FALSE) = matched

(* Two patterns, only the second of which matches the line, select it. *)
C1_Witness ==
  /\ InLoop /\ line # NoLine
  /\ grep_ctx.num_patterns = 2
  /\ ~grep_ctx.invert_match
  /\ ~fn_match_call(grep_ctx.fn_match, grep_ctx.pattern_list[1], line, FALSE)
  /\ fn_match_call(grep_ctx.fn_match, grep_ctx.pattern_list[2], line, FALSE)
  /\ matched

(* C2: every step leaves the status as it is, or raises it to FAILURE, or  *)
(* raises it from NOMATCH to MATCH: FAILURE is never left and MATCH never  *)
(* falls back to NOMATCH.                                                  *)
C2_StatusOnlyEscalates ==
  [][\/ grep_ctx'.status_code = grep_ctx.status_code
     \/ grep_ctx'.status_code = GREP_EXIT_FAILURE
     \/ /\ grep_ctx.status_code = GREP_EXIT_NOMATCH
        /\ grep_ctx'.status_code = GREP_EXIT_MATCH]_vars

(* A line is selected after a file could not be opened: the status stays. *)
C2_Witness ==
  /\ InLoop /\ line # NoLine /\ matched
  /\ stderr = <<"fopen">>
  /\ grep_ctx.status_code = GREP_EXIT_FAILURE

(* C3: grep_main returns 2 if a diagnostic was written, else 0 if a line   *)
(* was selected, else 1.                                                   *)
C3_ExitStatus ==
  pc = "done" =>
    grep_ctx.status_code =
      (IF stderr # <<>> THEN GREP_EXIT_FAILURE
       ELSE IF selected THEN GREP_EXIT_MATCH
       ELSE GREP_EXIT_NOMATCH)

(* A run that selected a line and also met an error returns 2. *)
C3_Witness ==
  /\ pc = "done"
  /\ selected
  /\ stderr # <<>>
  /\ grep_ctx.status_code = GREP_EXIT_FAILURE

(* Options that exclude each other are set. *)
ConflictingModes(ctx) ==
  \/ ctx.extended_reg_expr /\ ctx.fixed_string
  \/ ctx.line_count /\ ctx.write_file_names
  \/ ctx.line_count /\ ctx.quiet
  \/ ctx.write_file_names /\ ctx.quiet

(* getopt has rejected an option. *)
UnknownOption == \E k \in 1..Len(stderr) : stderr[k] = "getopt"

(* Nothing was opened, no line was evaluated, nothing was written. *)
NothingScanned == ~opened /\ ~evaluated /\ stdout = <<>>

(* C4: with -E and -F together, with two of -c, -l, -q together, or with   *)
(* an unknown option, no stream is opened, no line is evaluated, nothing   *)
(* is written, and once the options are parsed the status is 2 for good.   *)
C4_ExclusiveModesNeverScan ==
  (ConflictingModes(grep_ctx) \/ UnknownOption) =>
    /\ NothingScanned
    /\ pc # "getopt" => grep_ctx.status_code = GREP_EXIT_FAILURE

(* A run with -E, -F and a file operand has returned 2. *)
C4_Witness ==
  /\ pc = "done"
  /\ grep_ctx.extended_reg_expr /\ grep_ctx.fixed_string
  /\ Len(argv) >= 1
  /\ NothingScanned
  /\ grep_ctx.status_code = GREP_EXIT_FAILURE

(* grep_compile_pattern_list has run and left a pattern without a regex. *)
CompileFailed ==
  /\ pc \in {"scan", "fopen", "getline", "post", "fclose", "free"}
  /\ ~grep_ctx.fixed_string
  /\ \E i \in 1..grep_ctx.num_patterns : ~grep_ctx.pattern_list[i].compiled

(* C5: when regcomp rejects a pattern of the list, however many others it  *)
(* accepts, the status is 2, no stream is opened, no line is evaluated and *)
(* nothing is written.                                                     *)
C5_CompileFailureNeverScans ==
  (CompileFailed \/ \E k \in 1..Len(stderr) : stderr[k] = "regcomp") =>
    /\ NothingScanned
    /\ grep_ctx.status_code = GREP_EXIT_FAILURE

(* Of two patterns the first compiled and the second did not; there is a   *)
(* file operand, and the run is about to return.                           *)
C5_Witness ==
  /\ pc = "free"
  /\ grep_ctx.num_patterns = 2
  /\ ~grep_ctx.fixed_string
  /\ grep_ctx.pattern_list[1].compiled
  /\ ~grep_ctx.pattern_list[2].compiled
  /\ Len(argv) >= 1
  /\ NothingScanned

(* "path:" when the command line names more than one file, else nothing. *)
PathPrefix == IF Len(argv) > 1 THEN Append(path, ":") ELSE <<>>

(* The count record of the current stream. *)
CountRecord == PathPrefix \o Decimal(Cardinality(SelectedLines)) \o <<NL>>

(* C6: with -c, while a stream is read nothing is written for it; when it  *)
(* has been left every line of it was read and what was written for it is  *)
(* one record: "path:" if more than one file operand was given, the number *)
(* of lines selected in this stream alone, a newline; also when that       *)
(* number is 0.                                                            *)
C6_CountOnly ==
  grep_ctx.line_count =>
    /\ InLoop => StreamOut = <<>>
    /\ StreamEnded => fp.rest = <<>> /\ StreamOut = CountRecord

(* The second of two files is done: none of its two lines was selected,    *)
(* after both lines of the first file were.                                *)
C6_Witness ==
  /\ grep_ctx.line_count
  /\ pc = "fclose"
  /\ file_i = 1 /\ Len(argv) = 2
  /\ Len(lines) = 2 /\ SelectedLines = {}
  /\ stdout = Append(argv[1], ":") \o <<"2", NL>> \o Append(argv[2], ":") \o <<"0", NL>>

(* C7: with -l, what is written for a stream is its path and a newline if  *)
(* a line of it was selected and nothing otherwise; a selected line is the *)
(* last line read from the stream, and the loop is left with it.           *)
C7_FilenamesOnly ==
  (grep_ctx.write_file_names /\ (InLoop \/ StreamEnded)) =>
    /\ StreamOut = (IF SelectedLines # {} THEN Append(path, NL) ELSE <<>>)
    /\ SelectedLines \subseteq {Len(lines)}
    /\ SelectedLines # {} => pc # "getline"

(* A stream was left after its first line, with a line still unread that   *)
(* would have been selected too.                                           *)
C7_Witness ==
  /\ grep_ctx.write_file_names
  /\ pc = "fclose"
  /\ SelectedLines = {1}
  /\ fp.rest # <<>>
  /\ Selects(ChopLast(Head(fp.rest)))
  /\ StreamOut = Append(path, NL)

(* With -q nothing is ever written and a stream is left only at its end. *)
QuietReadsAllWritesNothing ==
  /\ stdout = <<>>
  /\ (pc = "post" \/ StreamEnded) => fp.rest = <<>>

(* C8, as stated: with -q nothing is written, every stream is read to its  *)
(* end, and the run returns 0 exactly when a line was selected.            *)
C8_QuietMatchedIffSelected ==
  grep_ctx.quiet =>
    /\ QuietReadsAllWritesNothing
    /\ pc = "done" => (grep_ctx.status_code = GREP_EXIT_MATCH <=> selected)

(* C8, amended: with -q nothing is written, every stream is read to its    *)
(* end, and the run returns 0 exactly when a line was selected and no      *)
(* diagnostic was written.                                                 *)
C8_QuietMatchedIffSelectedNoError ==
  grep_ctx.quiet =>
    /\ QuietReadsAllWritesNothing
    /\ pc = "done" =>
         (grep_ctx.status_code = GREP_EXIT_MATCH <=> (selected /\ stderr = <<>>))

(* Standard input was read to its end past a selected first line, nothing  *)
(* was written, and the run has returned 0.                                *)
C8_Witness ==
  /\ grep_ctx.quiet
  /\ pc = "done"
  /\ fp.open /\ fp.rest = <<>>
  /\ Len(lines) = 2 /\ lines[1] = <<"a">> /\ lines[2] = <<"b">>
  /\ selected /\ ~grep_ctx.invert_match
  /\ stdout = <<>>
  /\ grep_ctx.status_code = GREP_EXIT_MATCH

(* The record of line k of the current stream. *)
LineRecord(k) ==
  PathPrefix
    \o (IF grep_ctx.line_number THEN Append(Decimal(k), ":") ELSE <<>>)
    \o Append(lines[k], NL)

(* The records of the selected lines of the current stream, from line k on. *)
RECURSIVE LineRecords(_)
LineRecords(k) ==
  IF k > Len(lines)
    THEN <<>>
    ELSE (IF k \in SelectedLines THEN LineRecord(k) ELSE <<>>) \o LineRecords(k + 1)

(* C9: without -c, -l and -q, what is written for a stream is one record   *)
(* for each selected line, in the order read: "path:" if and only if more  *)
(* than one file operand was given, the line's position in its stream      *)
(* counted from 1 and ":" if and only if -n was given, the line's text, a  *)
(* newline.                                                                *)
C9_DefaultRecords ==
  (/\ ~grep_ctx.line_count /\ ~grep_ctx.write_file_names /\ ~grep_ctx.quiet
   /\ InLoop \/ StreamEnded) =>
    StreamOut = LineRecords(1)

(* With -n and two files, the second file's only selected line is its      *)
(* second: one record, numbered 2.                                         *)
C9_Witness ==
  /\ ~grep_ctx.line_count /\ ~grep_ctx.write_file_names /\ ~grep_ctx.quiet
  /\ grep_ctx.line_number
  /\ pc = "fclose"
  /\ file_i = 1 /\ Len(argv) = 2
  /\ mark > 0
  /\ Len(lines) = 2 /\ SelectedLines = {2}
  /\ StreamOut = Append(path, ":") \o <<"2", ":">> \o Append(lines[2], NL)

(* The only pattern of the list was loaded from an empty text (with -x a   *)
(* regular expression has been rewritten by grep_pattern_add_bol_eol).     *)
OnlyPatternWasEmpty ==
  /\ grep_ctx.num_patterns = 1
  /\ grep_ctx.pattern_list[1].pattern =
       (IF grep_ctx.full_string_match /\ ~grep_ctx.fixed_string
          THEN <<"^", "(", ")", "$">>
          ELSE <<>>)

(* C10: an empty pattern selects every line without -x, and with -x        *)
(* exactly the empty lines, whether it is a basic or an extended regular   *)
(* expression or a fixed string, with or without -i.                       *)
C10_EmptyPattern ==
  (InLoop /\ line # NoLine /\ OnlyPatternWasEmpty /\ ~grep_ctx.invert_match) =>
    matched = (IF grep_ctx.full_string_match THEN line = <<>> ELSE TRUE)

(* The call of fn has returned. *)
Returned(fn) == call.fn = fn /\ ret.done

(* The least element of a set of numbers that is not empty. *)
Least(S) == CHOOSE k \in S : \A j \in S : k <= j

(* C11: grep_strcasestr(s1, s2) returns NULL exactly when s2 does not      *)
(* occur in s1 once the case of both is folded, and otherwise the suffix   *)
(* of s1 that starts at the first occurrence (s1 itself for an empty s2).  *)
C11_StrcasestrFirstOccurrence ==
  Returned("grep_strcasestr") =>
    LET occ == Occurrences(FoldCase(call.s1), FoldCase(call.s2))
    IN  ret.value = (IF occ = {} THEN 0 ELSE Least(occ))

(* C12: si_add_size_t reports a wrap exactly when a + b is above SIZE_MAX, *)
(* and without a wrap the result is a + b.                                 *)
C12_AddWrapsIffSumAboveSizeMax ==
  Returned("si_add_size_t") =>
    /\ ret.value.wraps <=> call.a + call.b > SIZE_MAX
    /\ ~ret.value.wraps => ret.value.result = call.a + call.b

(* SIZE_MAX + 1 was reported as a wrap. *)
C12_Witness ==
  /\ Returned("si_add_size_t")
  /\ call.a = SIZE_MAX /\ call.b = 1
  /\ ret.value.wraps

(* C13: si_mul_size_t reports a wrap exactly when a * b is above SIZE_MAX, *)
(* and without a wrap the result is a * b; a zero operand never wraps, and *)
(* the verdict is the same with the operands exchanged.                    *)
C13_MulWrapsIffProductAboveSizeMax ==
  Returned("si_mul_size_t") =>
    /\ ret.value.wraps <=> call.a * call.b > SIZE_MAX
    /\ ~ret.value.wraps => ret.value.result = call.a * call.b
    /\ (call.a = 0 \/ call.b = 0) => ~ret.value.wraps
    /\ si_mul_size_t(call.b, call.a).wraps = ret.value.wraps

(* (SIZE_MAX / 2) * 2 was computed without a wrap. *)
C13_Witness ==
  /\ Returned("si_mul_size_t")
  /\ call.a = SIZE_MAX \div 2 /\ call.b = 2
  /\ ~ret.value.wraps
  /\ ret.value.result = SIZE_MAX - 1

(* A string of tokens that are not empty, with one newline between two. *)
SingleSeparated(str) ==
  /\ str # <<>>
  /\ str[1] # NL /\ str[Len(str)] # NL
  /\ \A k \in 1..(Len(str) - 1) : ~(str[k] = NL /\ str[k + 1] = NL)

(* The texts between the newlines of str, empty ones too. *)
RECURSIVE SplitAtNewlines(_)
SplitAtNewlines(str) ==
  IF \A k \in 1..Len(str) : str[k] # NL
    THEN <<str>>
    ELSE LET n == Least({k \in 1..Len(str) : str[k] = NL})
         IN  <<SubSeq(str, 1, n - 1)>> \o SplitAtNewlines(SubSeq(str, n + 1, Len(str)))

(* The raw texts of the patterns of a context, in store order. *)
RawTexts(ctx) == [k \in 1..Len(ctx.pattern_list) |-> ctx.pattern_list[k].pattern]

(* grep_pattern_string has left the store's patterns in place and put the  *)
(* tokens of the string behind them, in their order.                       *)
TokensAppended ==
  /\ RawTexts(ret.value.ctx) = call.store \o SplitAtNewlines(call.pattern_str)
  /\ ret.value.ctx.num_patterns =
       Len(call.store) + Len(SplitAtNewlines(call.pattern_str))

(* The library answered no allocation of the call with a failure. *)
NoAllocFailure == \A k \in DOMAIN call.outcomes : call.outcomes[k] = "ok"

StrategyAnswer(ctx, pattern, ln) ==
  IF ctx.fixed_string
    THEN IF ctx.case_insensitive
           THEN IF ctx.full_string_match
                  THEN FoldCase(ln) = FoldCase(pattern.pattern)
                  ELSE Occurrences(FoldCase(ln), FoldCase(pattern.pattern)) # {}
           ELSE IF ctx.full_string_match
                  THEN ln = pattern.pattern
                  ELSE Occurrences(ln, pattern.pattern) # {}
    ELSE grep_match_regex(pattern, ln, FALSE)

(* C15: fn_match is assigned by the one step of grep_set_fn_match and by   *)
(* no other, and for every line evaluated each pattern is answered as the  *)
(* options say: with -F, substring search or whole-line equality, folded   *)
(* in case with -i; without -F, regexec on the compiled pattern.           *)
C15_StrategyByFlags ==
  /\ [][grep_ctx'.fn_match # grep_ctx.fn_match => pc = "set_fn_match"]_vars
  /\ []((InLoop /\ line # NoLine) =>
          \A i \in 1..grep_ctx.num_patterns :
            fn_match_call(grep_ctx.fn_match, grep_ctx.pattern_list[i], line, FALSE)
              = StrategyAnswer(grep_ctx, grep_ctx.pattern_list[i], line))


(* The step is a failed fopen of the next file operand. *)
FopenFails == pc = "fopen" /\ pc' = "fopen" /\ file_i' = file_i + 1

(* C16: a failed fopen of a file operand sets the status to 2 without -s,  *)
(* and with -s leaves the status as it was for EACCES, EISDIR, ELOOP,      *)
(* ENAMETOOLONG, ENOENT, ENOTDIR and ENXIO and sets it to 2 for any other  *)
(* errno; either way no line of that file is read, evaluated or written.   *)
C16_FopenFailure ==
  [][FopenFails =>
       /\ grep_ctx'.status_code =
            (IF /\ grep_ctx.ignore_file_error
                /\ errno' \in {"EACCES", "EISDIR", "ELOOP", "ENAMETOOLONG",
                               "ENOENT", "ENOTDIR", "ENXIO"}
               THEN grep_ctx.status_code
               ELSE GREP_EXIT_FAILURE)
       /\ ~fp'.open
       /\ hist' = hist /\ evaluated' = evaluated /\ stdout' = stdout]_vars

(* With -s the only file operand was not found: no diagnostic, and the     *)
(* status is still the initial one.                                        *)
C16_Witness ==
  /\ pc = "fopen" /\ file_i = 1
  /\ grep_ctx.ignore_file_error
  /\ errno = "ENOENT"
  /\ stderr = <<>>
  /\ grep_ctx.status_code = GREP_EXIT_NOMATCH
  /\ ~evaluated


(* A stream is left at its end or, with -l, at a selected line; the lines  *)
(* counted are the lines selected; the file loop ends after the last file  *)
(* operand, and file_i moves one operand at a time.                        *)
ScanRunsToTheEnd ==
  /\ []((pc = "post" \/ StreamEnded) =>
          /\ fp.rest = <<>> \/ (grep_ctx.write_file_names /\ matched)
          /\ match_i = Cardinality(SelectedLines))
  /\ []((pc \in {"free", "done"} /\ opened /\ Len(argv) >= 1) =>
          file_i = Len(argv))
  /\ [][(pc \in {"fopen", "getline", "post", "fclose"} /\ file_i' # file_i) =>
          /\ file_i' = file_i + 1
          /\ FopenFails \/ pc = "fclose"]_vars

(* A write or an fclose fails in this step, or the stream read has its     *)
(* error indicator set.                                                    *)
WriteCloseOrReadFails ==
  \/ pc \in {"getline", "post", "fclose"} /\ faults' > faults
  \/ pc = "post" /\ fp.error

(* C17, as stated: a failed write, fopen, fclose or read while scanning    *)
(* sets the status to 2, and the scan goes on: the stream is read to its   *)
(* end with match_i the number of lines selected, and every file operand   *)
(* after it is opened in turn.                                             *)
C17_IOFailureNeverStopsScan ==
  /\ ScanRunsToTheEnd
  /\ [][(WriteCloseOrReadFails \/ FopenFails) =>
          grep_ctx'.status_code = GREP_EXIT_FAILURE]_vars

(* C17, amended: the same, except that a failed fopen sets the status to 2 *)
(* only if it is reported: without -s, or with an errno -s does not cover. *)
C17_ReportedIOFailureNeverStopsScan ==
  /\ ScanRunsToTheEnd
  /\ [][(\/ WriteCloseOrReadFails
         \/ FopenFails /\ fopen_error_display(grep_ctx, errno')) =>
          grep_ctx'.status_code = GREP_EXIT_FAILURE]_vars

(* The first of two files could not be opened; the second was opened and   *)
(* both of its lines were read and selected.                               *)
C17_Witness ==
  /\ pc = "fclose"
  /\ Len(argv) = 2 /\ file_i = 1
  /\ stderr = <<"fopen">>
  /\ grep_ctx.status_code = GREP_EXIT_FAILURE
  /\ ~grep_ctx.write_file_names
  /\ Len(lines) = 2 /\ match_i = 2


(* The elements of a sequence, and whether none of them occurs twice. *)
Range(seq) == {seq[k] : k \in 1..Len(seq)}

NoDuplicates(seq) == Cardinality(Range(seq)) = Len(seq)

(* C18: grep_free_pattern_list has run exactly once when grep_main has     *)
(* returned and not before; no pattern is given to regcomp twice; until    *)
(* the list is freed a pattern is flagged compiled exactly if regcomp      *)
(* accepted it; regfree is called once for each of those patterns and for  *)
(* no other; the count is zero after the release; and at no time are two   *)
(* files open, none being open at the return.                              *)
C18_ReleasedExactlyOnce ==
  /\ res.frees = (IF pc = "done" THEN 1 ELSE 0)
  /\ NoDuplicates(res.regcomp) /\ NoDuplicates(res.regfree)
  /\ Range(res.regfree) \subseteq Range(res.regcomp)
  /\ pc # "done" =>
       /\ res.regfree = <<>>
       /\ \A i \in 1..grep_ctx.num_patterns :
            grep_ctx.pattern_list[i].compiled <=> i \in Range(res.regcomp)
  /\ pc = "done" =>
       /\ Range(res.regfree) = Range(res.regcomp)
       /\ grep_ctx.num_patterns = 0 /\ grep_ctx.pattern_list = <<>>
       /\ res.open = 0
  /\ res.open <= 1 /\ res.peak <= 1
  /\ res.open = (IF fp.open /\ path # STDIN_PATH THEN 1 ELSE 0)

(* Of two patterns regcomp accepted the first and rejected the second; the *)
(* run has returned with the first released and the second left alone.     *)
C18_Witness ==
  /\ pc = "done"
  /\ res.regcomp = <<1>> /\ res.regfree = <<1>>
  /\ \E k \in 1..Len(stderr) : stderr[k] = "regcomp"
  /\ res.frees = 1
  /\ grep_ctx.num_patterns = 0

(* Two file operands were opened one after the other and both closed. *)
C18_WitnessFiles ==
  /\ pc = "done"
  /\ Len(argv) = 2 /\ file_i = 2
  /\ res.peak = 1 /\ res.open = 0


(* C19: whenever a line of a stream has been evaluated the pattern list    *)
(* holds at least one pattern, whatever -e strings, -f files and pattern   *)
(* operand were given.                                                     *)
C19_ScanHasPattern ==
  (InLoop /\ line # NoLine) => grep_ctx.num_patterns >= 1

(* C20: when no allocation fails, grep_pattern_string adds exactly one     *)
(* pattern, the empty one, for the empty string, and at least one pattern  *)
(* for any other string.                                                   *)
C20_StringYieldsPattern ==
  (Returned("grep_pattern_string") /\ NoAllocFailure) =>
    LET before == Len(call.store)
        after  == ret.value.ctx.num_patterns
    IN  IF call.pattern_str = <<>>
          THEN /\ after = before + 1
               /\ ret.value.ctx.pattern_list[after].pattern = <<>>
          ELSE after >= before + 1

(* grep_compile_pattern_list has returned and the list is not yet freed. *)
AfterCompile ==
  /\ pc \in {"scan", "fopen", "getline", "post", "fclose", "free"}
  /\ ~grep_ctx.fixed_string

(* The patterns of the list that regcomp rejects under the options given. *)
Rejected ==
  {i \in 1..grep_ctx.num_patterns :
     regcomp(grep_ctx.pattern_list[i].pattern, grep_ctx.extended_reg_expr,
             grep_ctx.case_insensitive).errcode # "0"}

(* How many diagnostics of stderr are msg. *)
Warnings(msg) == Cardinality({k \in 1..Len(stderr) : stderr[k] = msg})

(* C21: after grep_compile_pattern_list every pattern regcomp accepts is   *)
(* compiled, whatever came before it in the list, and the accepted ones    *)
(* were compiled once each in the order of the list; every pattern regcomp *)
(* rejects is left uncompiled and has its own diagnostic, and one such     *)
(* pattern is enough for status 2.                                         *)
C21_CompilesEveryPattern ==
  AfterCompile =>
    /\ \A i \in 1..grep_ctx.num_patterns :
         grep_ctx.pattern_list[i].compiled <=> i \notin Rejected
    /\ Range(res.regcomp) = (1..grep_ctx.num_patterns) \ Rejected
    /\ \A j, k \in 1..Len(res.regcomp) : j < k => res.regcomp[j] < res.regcomp[k]
    /\ Warnings("regcomp") = Cardinality(Rejected)
    /\ Rejected # {} => grep_ctx.status_code = GREP_EXIT_FAILURE

(* regcomp rejected the first of two patterns and compiled the second. *)
C21_Witness ==
  /\ AfterCompile
  /\ grep_ctx.num_patterns = 2
  /\ Rejected = {1}
  /\ grep_ctx.pattern_list[2].compiled
  /\ res.regcomp = <<2>>
  /\ grep_ctx.status_code = GREP_EXIT_FAILURE

(* regcomp rejected both patterns of the list in one run. *)
C21_WitnessTwoFailures ==
  /\ AfterCompile
  /\ Rejected = {1, 2}
  /\ stderr = <<"regcomp", "regcomp">>

(* C22: grep_pattern_append on a list of n patterns. If the size of n + 1  *)
(* patterns fits a size_t and realloc succeeds, the list has n + 1         *)
(* patterns, the last of them holds the given text and is not compiled,    *)
(* the n before it are as they were, and status and stderr are untouched.  *)
(* Otherwise the status is 2, a diagnostic is written, and the list and    *)
(* its count are as they were.                                             *)
C22_AppendSucceedsOrLeavesStore ==
  Returned("grep_pattern_append") =>
    LET n      == call.count
        before == ContextWith(StoreOf(n))
        after  == ret.value
        fits   == (n + 1) * SIZEOF_GREP_PATTERN <= SIZE_MAX
    IN  IF fits /\ call.realloc_ok
          THEN /\ after.ctx.num_patterns = n + 1
               /\ Len(after.ctx.pattern_list) = n + 1
               /\ after.ctx.pattern_list[n + 1].pattern = call.pattern_str
               /\ ~after.ctx.pattern_list[n + 1].compiled
               /\ SubSeq(after.ctx.pattern_list, 1, n) = before.ctx.pattern_list
               /\ after.ctx.status_code = before.ctx.status_code
               /\ after.stderr = before.stderr
          ELSE /\ after.ctx.status_code = GREP_EXIT_FAILURE
               /\ after.stderr = <<"realloc">>
               /\ after.ctx.pattern_list = before.ctx.pattern_list
               /\ after.ctx.num_patterns = n

(* realloc would have succeeded, but the size of the grown list does not   *)
(* fit: the pattern is dropped and the status is 2.                        *)
C22_Witness ==
  /\ Returned("grep_pattern_append")
  /\ call.realloc_ok
  /\ (call.count + 1) * SIZEOF_GREP_PATTERN > SIZE_MAX
  /\ ret.value.ctx.num_patterns = call.count
  /\ ret.value.ctx.status_code = GREP_EXIT_FAILURE

(* An append to a list of one pattern has succeeded. *)
C22_WitnessSuccess ==
  /\ Returned("grep_pattern_append")
  /\ call.count = 1 /\ call.pattern_str = <<"a", "b">>
  /\ ret.value.ctx.num_patterns = 2
  /\ ret.value.ctx.pattern_list[2].pattern = <<"a", "b">>

(* The text between "^(" and ")$" of a pattern rewritten for -x. *)
Original(text) == SubSeq(text, 3, Len(text) - 2)

(* Letters: characters that stand for themselves in either regex syntax. *)
Ordinary(text) ==
  Len(text) > 0 /\ \A k \in 1..Len(text) : text[k] \in {"a", "A", "b", "B", "c"}

(* C23: without -F and with -x, once the list is compiled every pattern    *)
(* reads "^(" original ")$", and for a pattern of letters only a line is   *)
(* matched exactly when it equals the original text (when it equals it up  *)
(* to case, with -i), with -E as well as without.                          *)
C23_AnchoredRegexIsEquality ==
  (AfterCompile /\ grep_ctx.full_string_match /\ Warnings("malloc") = 0) =>
    \A i \in 1..grep_ctx.num_patterns :
      LET text == grep_ctx.pattern_list[i].pattern
      IN  /\ Len(text) >= 4
          /\ text = stpcpy3(<<"^", "(">>, Original(text), <<")", "$">>)
          /\ (InLoop /\ line # NoLine /\ Ordinary(Original(text))) =>
               (fn_match_call(grep_ctx.fn_match, grep_ctx.pattern_list[i], line, FALSE)
                  <=> IF grep_ctx.case_insensitive
                        THEN FoldCase(line) = FoldCase(Original(text))
                        ELSE line = Original(text))

(* C24: with -F no pattern is ever compiled or rewritten: a step other     *)
(* than the release leaves every pattern of the list as it was appended,   *)
(* no pattern is flagged compiled and regcomp is never called, with -x or  *)
(* without; and with -x a pattern matches a line exactly when the two are  *)
(* equal, or with -i equal once their case is folded.                      *)
C24_FixedStringLeavesPatterns ==
  /\ [][(grep_ctx'.fixed_string /\ pc # "free") =>
          \A i \in 1..grep_ctx.num_patterns :
            /\ i <= grep_ctx'.num_patterns
            /\ grep_ctx'.pattern_list[i] = grep_ctx.pattern_list[i]]_vars
  /\ [](grep_ctx.fixed_string =>
          /\ res.regcomp = <<>>
          /\ \A i \in 1..grep_ctx.num_patterns :
               /\ ~grep_ctx.pattern_list[i].compiled
               /\ grep_ctx.pattern_list[i].regex = NoRegex
          /\ (InLoop /\ line # NoLine /\ grep_ctx.full_string_match) =>
               \A i \in 1..grep_ctx.num_patterns :
                 fn_match_call(grep_ctx.fn_match, grep_ctx.pattern_list[i], line, FALSE)
                   <=> IF grep_ctx.case_insensitive
                         THEN FoldCase(line) = FoldCase(grep_ctx.pattern_list[i].pattern)
                         ELSE line = grep_ctx.pattern_list[i].pattern)

(* With -F, -x and -i the pattern a, still as it was loaded, is tried on   *)
(* the line Ab, which holds it but does not equal it: no match.            *)
C24_Witness ==
  /\ InLoop /\ line = <<"A", "b">>
  /\ grep_ctx.fixed_string /\ grep_ctx.full_string_match /\ grep_ctx.case_insensitive
  /\ ~grep_ctx.invert_match
  /\ grep_ctx.num_patterns = 1
  /\ grep_ctx.pattern_list[1] = [pattern |-> <<"a">>, compiled |-> FALSE, regex |-> NoRegex]
  /\ ~matched

(* C25: a call of grep_free_pattern_list on a list whose count is zero,    *)
(* because nothing was ever appended or because the list was released      *)
(* before, leaves the count at zero and frees nothing again: no regfree    *)
(* for a pattern a second time and no free of the block of the list once   *)
(* it is freed.                                                            *)
C25_ReleaseIsIdempotent ==
  (Returned("grep_free_pattern_list") /\ (call.count = 0 \/ ret.n >= 2)) =>
    /\ ret.value.ctx.num_patterns = 0
    /\ NoDuplicates(ret.value.res.regfree)
    /\ ret.value.res.refreed = 0
    /\ ret.ub = "none"

(* The step reads a line that is not selected. *)
ReadsUnselectedLine ==
  pc = "getline" /\ Len(hist') = Len(hist) + 1 /\ ~matched'

(* C26: the step that reads a line and does not select it adds one to      *)
(* line_i and leaves match_i, the whole context (status, pattern list,     *)
(* options, fn_match), stdout and stderr as they were.                     *)
C26_UnselectedLineOnlyAdvances ==
  [][ReadsUnselectedLine =>
       /\ line_i' = line_i + 1
       /\ match_i' = match_i
       /\ grep_ctx' = grep_ctx
       /\ stdout' = stdout
       /\ stderr' = stderr
       /\ pc' = "getline"]_vars

(* The second line of a stream was not selected after the first was: the   *)
(* count is still 1, the status still 0, and one record is written.        *)
C26_Witness ==
  /\ pc = "getline"
  /\ Len(lines) = 2 /\ SelectedLines = {1}
  /\ ~matched
  /\ line_i = 3 /\ match_i = 1
  /\ grep_ctx.status_code = GREP_EXIT_MATCH
  /\ StreamOut = Append(lines[1], NL)

(* C27: when an allocation fails for the k-th token of a pattern string,   *)
(* the store holds afterwards what it held before and the k - 1 tokens     *)
(* that came before the failure, and no token that came after it; the      *)
(* status is 2.                                                            *)
C27_AllocFailureEndsSource ==
  (Returned("grep_pattern_string") /\ ~NoAllocFailure /\ SingleSeparated(call.pattern_str)) =>
    LET k      == Least({j \in DOMAIN call.outcomes : call.outcomes[j] # "ok"})
        tokens == SplitAtNewlines(call.pattern_str)
    IN  /\ RawTexts(ret.value.ctx) = call.store \o SubSeq(tokens, 1, k - 1)
        /\ ret.value.ctx.num_patterns = Len(call.store) + k - 1
        /\ ret.value.ctx.status_code = GREP_EXIT_FAILURE

(* What getline delivered, without its newline if it ends in one. *)
WithoutNewline(buf) ==
  IF Len(buf) > 0 /\ buf[Len(buf)] = NL THEN SubSeq(buf, 1, Len(buf) - 1) ELSE buf

(* C28: when no allocation fails, grep_pattern_file puts behind the        *)
(* patterns of the store one pattern for each line of the file, in the     *)
(* order of the file, each the text of its line without the newline, the   *)
(* whole text for a last line that has none; and when the file cannot be   *)
(* opened the status is 2, with -s as without, and the store is untouched. *)
C28_PatternFileLines ==
  Returned("grep_pattern_file") =>
    /\ (call.fopen_ok /\ NoAllocFailure) =>
         RawTexts(ret.value.ctx) =
           call.store \o [k \in 1..Len(call.content) |-> WithoutNewline(call.content[k])]
    /\ ~call.fopen_ok =>
         /\ ret.value.ctx.status_code = GREP_EXIT_FAILURE
         /\ RawTexts(ret.value.ctx) = call.store

(* Every pattern of the list is flagged compiled. *)
AllCompiled ==
  \A i \in 1..grep_ctx.num_patterns : grep_ctx.pattern_list[i].compiled

(* C29: without -F, whenever a line has been given to fn_match, which is   *)
(* then grep_match_regex, every pattern of the list is compiled; and once  *)
(* grep_compile_pattern_list has left a pattern uncompiled no line is ever *)
(* evaluated.                                                              *)
C29_RegexOnlyOnCompiled ==
  /\ (InLoop /\ line # NoLine /\ grep_ctx.fn_match = "grep_match_regex") => AllCompiled
  /\ (evaluated /\ ~grep_ctx.fixed_string /\ pc # "done") => AllCompiled
  /\ CompileFailed => ~evaluated

(* A line was evaluated against two compiled patterns. *)
C29_Witness ==
  /\ InLoop /\ line # NoLine
  /\ grep_ctx.fn_match = "grep_match_regex"
  /\ grep_ctx.num_patterns = 2
  /\ AllCompiled
  /\ res.regcomp = <<1, 2>>

(* C30: the text evaluated for a line is what getline delivered without    *)
(* its newline, the whole of it for a last line that has none; and when    *)
(* the line is selected and lines are written, what is written for it ends *)
(* with that text and a newline.                                           *)
C30_LineTextKeepsLastCharacter ==
  (InLoop /\ line # NoLine) =>
    LET text == WithoutNewline(hist[Len(hist)])
    IN  /\ line = text
        /\ (/\ matched
            /\ ~grep_ctx.line_count /\ ~grep_ctx.write_file_names /\ ~grep_ctx.quiet) =>
             /\ Len(StreamOut) >= Len(text) + 1
             /\ SubSeq(StreamOut, Len(StreamOut) - Len(text), Len(StreamOut))
                  = Append(text, NL)

====
